---- MODULE Spec2Model ----
(***************************************************************************)
(* Go-AI: the distributed training loop (train.py), the collective         *)
(* self-play driver (go_ai/parallel.py) and the replay store               *)
(* (go_ai/data.py), as a state machine over world_size MPI workers.        *)
(*                                                                         *)
(* Spec        the training loop of every worker, interleaved, with the    *)
(*             MPI collectives (allreduce, Barrier) as rendezvous points.  *)
(* SpecSample  the local tail of sample_replaydata (sample, flatten,       *)
(*             shuffle, to numpy, split into batches) on bounded inputs.   *)
(***************************************************************************)
EXTENDS Integers, Sequences, FiniteSets, TLC

(***************************************************************************)
(* Bounds of the model (the program takes these from the command line).    *)
(***************************************************************************)
\* comm.Get_size()
WorldSize == 2
\* args.iterations
Iterations == 4
\* args.eval_interval
EvalInterval == 2
\* args.episodes
Episodes == 1
\* args.replaysize
ReplaySize == 4
\* args.trainsize
TrainSize == 2
\* how many pickle.dump attempts may raise in one run
MaxDumpFailures == 1

\* train.py:26, `wr > 0.55`, in percent
PromoteThresholdPct == 55

\* the win rates (percent) game.play_games may report on one worker
LocalWinRates == {50, 60}

Ranks == 0 .. (WorldSize - 1)

(***************************************************************************)
(* Python values.                                                          *)
(***************************************************************************)
None == [some |-> FALSE]
Some(x) == [some |-> TRUE, v |-> x]

PyBool(b) == [type |-> "bool", v |-> b]
PyTuple(s) == [type |-> "tuple", v |-> s]
\* Python's ==: values of different types (a tuple and a bool) are unequal.
PyEq(a, b) == IF a.type = b.type THEN a.v = b.v ELSE FALSE

RECURSIVE Pow2(_)
Pow2(n) == IF n = 0 THEN 1 ELSE 2 * Pow2(n - 1)

\* int(math.ceil(a / b))
CeilDiv(a, b) == (a + b - 1) \div b

Min(a, b) == IF a <= b THEN a ELSE b
Max(a, b) == IF a >= b THEN a ELSE b

RECURSIVE SumOver(_, _)
SumOver(f, S) ==
  IF S = {} THEN 0
  ELSE LET x == CHOOSE y \in S : TRUE IN f[x] + SumOver(f, S \ {x})

RECURSIVE Concat(_)
\* the concatenation of a sequence of sequences
Concat(ss) == IF ss = <<>> THEN <<>> ELSE Head(ss) \o Concat(Tail(ss))

\* the elements of a sequence
Range(s) == {s[i] : i \in 1 .. Len(s)}

\* a slip: a full buffer that keeps its oldest elements and drops the new ones
DequeExtendKeepOldest(dq, xs, m) ==
  LET all == dq \o xs
  IN  IF Len(all) <= m THEN all ELSE SubSeq(all, 1, m)

\* a deque(maxlen=m) after extend(xs): the newest m elements are kept
DequeExtend(dq, xs, m) ==
  LET all == dq \o xs
  IN  IF Len(all) <= m THEN all ELSE SubSeq(all, Len(all) - m + 1, Len(all))

(***************************************************************************)
(* State.  Every variable but disk and failures is a function of the rank: *)
(* each worker is a process with its own memory.                           *)
(***************************************************************************)
VARIABLES
  pc,                 \* where the worker is in train()
  iteration,          \* train: the loop variable
  rejections,         \* train: rejections
  replay_data,        \* train: the deque of trajectories
  accepted,           \* train: what evaluate() returned
  winrates,           \* train: the defaultdict(float) of win rates
  opponent,           \* evaluate: the loop index into Opponents
  accepted_flag,      \* evaluate: its local `accepted`
  ctx,                \* who called parallel_play: "selfplay" or "eval"
  played,             \* parallel_play: winrate and traj
  worker,             \* sample_replaydata: the loop variable
  all_data,           \* sample_replaydata: the loaded replay set, or None
  sample_data,        \* sample_replaydata: the sample, or None
  curr_weights,       \* the candidate network's parameters (a version)
  checkpoint_weights, \* the checkpoint network's parameters (a version)
  entered,            \* MPI: the collective each worker is blocked in
  result,             \* MPI: the collective's result, delivered to a worker
  disk,               \* episodesdir: the file worker_<rank>.pickle of each rank
  failures,           \* how many pickle.dump attempts raised so far
  consecutive,        \* history: non-promoting evaluations since the last promotion
  fn                  \* SpecSample: the state of one sample_replaydata tail

trainvars == <<pc, iteration, rejections, replay_data, accepted, winrates,
               opponent, accepted_flag, ctx, played, worker, all_data,
               sample_data, curr_weights, checkpoint_weights, entered, result,
               disk, failures, consecutive>>
vars == <<trainvars, fn>>

\* evaluate: [checkpoint_pi, policies.RAND_PI, policies.GREEDY_PI]
Opponents == <<"checkpoint_pi", "RAND_PI", "GREEDY_PI">>

(***************************************************************************)
(* Win rates.  parallel_play returns allreduce(winrate, SUM) / world_size; *)
(* the model keeps the sum of the workers' percentages, which is the win   *)
(* rate in units of 1 / (100 * world_size), so that no rounding is hidden. *)
(***************************************************************************)
\* a slip of the comparison: wr >= 0.55
PromotesAtLeast(wr) == wr >= PromoteThresholdPct * WorldSize

\* wr > 0.55
Promotes(wr) == wr > PromoteThresholdPct * WorldSize

(***************************************************************************)
(* Pickle: a file is a sequence of opcodes.                                *)
(***************************************************************************)
Op(o) == [op |-> o, arg |-> <<>>]
Item(t) == [op |-> "ITEM", arg |-> <<t>>]

\* pickle.dump(replay_data, f): what a successful dump writes
Pickle(buf) == <<Op("PROTO")>> \o [i \in 1 .. Len(buf) |-> Item(buf[i])] \o <<Op("STOP")>>

\* the index of the first opcode after position 1 that is not an ITEM (0: none)
FirstNonItem(content) ==
  LET S == {i \in 2 .. Len(content) : content[i].op # "ITEM"}
  IN  IF S = {} THEN 0 ELSE CHOOSE i \in S : \A j \in S : i <= j

\* pickle.load(f): reads one object from the start of the file; anything that
\* is not one complete pickle from the first byte on raises.
Unpickle(content) ==
  IF content = <<>> THEN [ok |-> FALSE, v |-> <<>>]
  ELSE IF content[1].op # "PROTO" THEN [ok |-> FALSE, v |-> <<>>]
  ELSE LET e == FirstNonItem(content)
       IN  IF e = 0 THEN [ok |-> FALSE, v |-> <<>>]
           ELSE IF content[e].op # "STOP" THEN [ok |-> FALSE, v |-> <<>>]
           ELSE [ok |-> TRUE, v |-> [i \in 1 .. (e - 2) |-> content[i + 1].arg[1]]]

(***************************************************************************)
(* File names.                                                             *)
(***************************************************************************)
DigitChar(d) == <<"0", "1", "2", "3", "4", "5", "6", "7", "8", "9">>[d + 1]

RECURSIVE Str(_)
\* str(n) for n >= 0, as a sequence of characters
Str(n) == IF n < 10 THEN <<DigitChar(n)>> ELSE Str(n \div 10) \o <<DigitChar(n % 10)>>

\* "worker_{}.pickle".format(rank)
FileName(rank) ==
  <<"w", "o", "r", "k", "e", "r", "_">> \o Str(rank) \o <<".", "p", "i", "c", "k", "l", "e">>

\* Python's `sub in s` on strings
StrIn(sub, s) ==
  \E i \in 0 .. (Len(s) - Len(sub)) : \A j \in 1 .. Len(sub) : s[i + j] = sub[j]

\* os.listdir(episodesdir): the ranks whose file exists.  The files are read in
\* rank order; the order of the listing only permutes the loaded list, which
\* its callers sample at random.
ListDir(d) == {q \in DOMAIN d : d[q].exists}

\* load_replaydata's filter: the files it opens
LoadedFiles(d, worker_rank) ==
  {q \in ListDir(d) :
     /\ StrIn(<<".", "p", "i", "c", "k", "l", "e">>, FileName(q))
     /\ ~(worker_rank.some /\ ~StrIn(Str(worker_rank.v), FileName(q)))}

RECURSIVE LoadFrom(_, _)
\* all_data.extend(pickle.load(f)) over the files S, in rank order
LoadFrom(d, S) ==
  IF S = {} THEN [ok |-> TRUE, v |-> <<>>]
  ELSE LET q == CHOOSE x \in S : \A y \in S : x <= y
           first == Unpickle(d[q].content)
           rest == LoadFrom(d, S \ {q})
       IN  IF first.ok /\ rest.ok THEN [ok |-> TRUE, v |-> first.v \o rest.v]
           ELSE [ok |-> FALSE, v |-> <<>>]

\* load_replaydata(episodesdir, worker_rank)
load_replaydata(d, worker_rank) == LoadFrom(d, LoadedFiles(d, worker_rank))

\* a slip: sample_replaydata loads with worker_rank=rank, its own shard only
SampleLoadOwn(rank) == Some(rank)

\* the argument sample_replaydata passes for worker_rank: none, so all files
SampleLoadRank(rank) == None

(***************************************************************************)
(* random.sample(all_data, k): k distinct positions of all_data.  The      *)
(* sample is kept in position order; random.shuffle follows in the code.   *)
(***************************************************************************)
RECURSIVE SetToSeq(_)
SetToSeq(S) ==
  IF S = {} THEN <<>>
  ELSE LET m == CHOOSE x \in S : \A y \in S : x <= y IN <<m>> \o SetToSeq(S \ {m})

\* a slip: one element short
SampleSizeShort(request_size, replay_len) == Min(request_size, replay_len - 1)

\* min(request_size, replay_len)
SampleSize(request_size, replay_len) == Min(request_size, replay_len)

SamplePositions(n, k) == {P \in SUBSET (1 .. n) : Cardinality(P) = k}

Pick(data, P) == LET ps == SetToSeq(P) IN [i \in 1 .. Len(ps) |-> data[ps[i]]]

(***************************************************************************)
(* The training loop.                                                      *)
(***************************************************************************)
\* args.evaluations
Evaluations == 1

\* deque(maxlen=args.replaysize // world_size)
DequeMaxLen == ReplaySize \div WorldSize

\* a trajectory of self-play: who played it, in which iteration, which game
\* of that iteration, and with which checkpoint parameters
Traj(r, it, k, ck) == [w |-> r, it |-> it, k |-> k, ck |-> ck]

NoPlay == [winrate |-> 0, traj |-> <<>>, req |-> 0]
NoFile == [exists |-> FALSE, open |-> FALSE, content |-> <<>>]
FnIdle == [pc |-> "idle"]

TrainInit ==
  /\ pc = [r \in Ranks |-> "play_games"]
  /\ iteration = [r \in Ranks |-> 0]
  /\ rejections = [r \in Ranks |-> 0]
  /\ replay_data = [r \in Ranks |-> <<>>]
  /\ accepted = [r \in Ranks |-> None]
  /\ winrates = [r \in Ranks |-> [o \in Range(Opponents) |-> 0]]
  /\ opponent = [r \in Ranks |-> 1]
  /\ accepted_flag = [r \in Ranks |-> FALSE]
  /\ ctx = [r \in Ranks |-> "selfplay"]
  /\ played = [r \in Ranks |-> NoPlay]
  /\ worker = [r \in Ranks |-> 0]
  /\ all_data = [r \in Ranks |-> None]
  /\ sample_data = [r \in Ranks |-> None]
  /\ curr_weights = [r \in Ranks |-> 0]
  /\ checkpoint_weights = [r \in Ranks |-> 0]
  /\ entered = [r \in Ranks |-> None]
  /\ result = [r \in Ranks |-> None]
  /\ disk = [r \in Ranks |-> NoFile]
  /\ failures = 0
  /\ consecutive = [r \in Ranks |-> 0]

Init == TrainInit /\ fn = FnIdle

\* train_step's request: (2 ** rejections) * args.episodes
SelfPlayRequest(r) == Pow2(rejections[r]) * Episodes

\* game.play_games inside parallel_play: the worker's share of the games
PlayGames(r) ==
  /\ pc[r] = "play_games"
  /\ LET req == IF ctx[r] = "selfplay" THEN SelfPlayRequest(r) ELSE Evaluations
         worker_episodes == CeilDiv(req, WorldSize)
         gettraj == ctx[r] = "selfplay"
     IN  \E lw \in LocalWinRates :
           played' = [played EXCEPT ![r] =
                        [winrate |-> lw,
                         traj |-> IF gettraj
                                  THEN [k \in 1 .. worker_episodes |->
                                          Traj(r, iteration[r], k, checkpoint_weights[r])]
                                  ELSE <<>>,
                         req |-> req]]
  /\ pc' = [pc EXCEPT ![r] = "ar_time"]
  /\ UNCHANGED <<iteration, rejections, replay_data, accepted, winrates, opponent,
                 accepted_flag, ctx, worker, all_data, sample_data, curr_weights,
                 checkpoint_weights, entered, result, disk, failures, consecutive, fn>>

(***************************************************************************)
(* MPI collectives.  A worker enters the collective its code calls and     *)
(* blocks; when every worker of the communicator has entered the same      *)
(* collective, each is handed the result (the sum, for allreduce).         *)
(***************************************************************************)
CollectiveSites == {"ar_time", "ar_winrate", "ar_steps", "barrier_written", "sample_barrier"}

CollectiveKind(p) == IF p \in {"ar_time", "ar_winrate", "ar_steps"} THEN "allreduce" ELSE "Barrier"

\* what the worker contributes: durations and step counts are not modelled
Contribution(r) == IF pc[r] = "ar_winrate" THEN played[r].winrate ELSE 0

Enter(r) ==
  /\ pc[r] \in CollectiveSites
  /\ ~entered[r].some
  /\ ~result[r].some
  /\ LET mine == [kind |-> CollectiveKind(pc[r]), val |-> Contribution(r)]
         others == Ranks \ {r}
         complete == /\ \A q \in others : entered[q].some
                     /\ \A q \in others : entered[q].v.kind = mine.kind
         vals == [q \in Ranks |-> IF q = r THEN mine.val ELSE entered[q].v.val]
     IN  IF complete
         THEN /\ result' = [q \in Ranks |-> Some(SumOver(vals, Ranks))]
              /\ entered' = [q \in Ranks |-> None]
         ELSE /\ entered' = [entered EXCEPT ![r] = Some(mine)]
              /\ UNCHANGED result
  /\ UNCHANGED <<pc, iteration, rejections, replay_data, accepted, winrates, opponent,
                 accepted_flag, ctx, played, worker, all_data, sample_data,
                 curr_weights, checkpoint_weights, disk, failures, consecutive, fn>>

\* avg_time = comm.allreduce(duration / worker_episodes) / world_size
ReturnTime(r) ==
  /\ pc[r] = "ar_time"
  /\ result[r].some
  /\ result' = [result EXCEPT ![r] = None]
  /\ pc' = [pc EXCEPT ![r] = "ar_winrate"]
  /\ UNCHANGED <<iteration, rejections, replay_data, accepted, winrates, opponent,
                 accepted_flag, ctx, played, worker, all_data, sample_data,
                 curr_weights, checkpoint_weights, entered, disk, failures,
                 consecutive, fn>>

\* a slip: the worker goes on with the win rate of its own games
WinrateOfOwnGames(r) == played[r].winrate * WorldSize

\* comm.allreduce(winrate, op=MPI.SUM): the sum over all workers
WinrateAllreduced(r) == result[r].v

\* winrate = comm.allreduce(winrate) / world_size
ReturnWinrate(r) ==
  /\ pc[r] = "ar_winrate"
  /\ result[r].some
  /\ played' = [played EXCEPT ![r].winrate = WinrateAllreduced(r)]
  /\ result' = [result EXCEPT ![r] = None]
  /\ pc' = [pc EXCEPT ![r] = "ar_steps"]
  /\ UNCHANGED <<iteration, rejections, replay_data, accepted, winrates, opponent,
                 accepted_flag, ctx, worker, all_data, sample_data, curr_weights,
                 checkpoint_weights, entered, disk, failures, consecutive, fn>>

\* avg_steps = comm.allreduce(sum(steps)) / episodes; return winrate, traj
ReturnSteps(r) ==
  /\ pc[r] = "ar_steps"
  /\ result[r].some
  /\ result' = [result EXCEPT ![r] = None]
  /\ pc' = [pc EXCEPT ![r] = "after_play"]
  /\ UNCHANGED <<iteration, rejections, replay_data, accepted, winrates, opponent,
                 accepted_flag, ctx, played, worker, all_data, sample_data,
                 curr_weights, checkpoint_weights, entered, disk, failures,
                 consecutive, fn>>

\* train_step: replay_data.extend(trajectories); the win rate is dropped
AfterSelfPlay(r) ==
  /\ pc[r] = "after_play"
  /\ ctx[r] = "selfplay"
  /\ replay_data' = [replay_data EXCEPT ![r] = DequeExtend(@, played[r].traj, DequeMaxLen)]
  /\ played' = [played EXCEPT ![r] = NoPlay]
  /\ pc' = [pc EXCEPT ![r] = "save_open"]
  /\ UNCHANGED <<iteration, rejections, accepted, winrates, opponent, accepted_flag,
                 ctx, worker, all_data, sample_data, curr_weights, checkpoint_weights,
                 entered, result, disk, failures, consecutive, fn>>

(***************************************************************************)
(* save_replaydata: open(outpath, 'wb') truncates the file; pickle.dump is *)
(* retried on the same open file until one attempt does not raise; leaving *)
(* the with block closes the file.                                         *)
(***************************************************************************)
SaveOpen(r) ==
  /\ pc[r] = "save_open"
  /\ disk' = [disk EXCEPT ![r] = [exists |-> TRUE, open |-> TRUE, content |-> <<>>]]
  /\ pc' = [pc EXCEPT ![r] = "save_dump"]
  /\ UNCHANGED <<iteration, rejections, replay_data, accepted, winrates, opponent,
                 accepted_flag, ctx, played, worker, all_data, sample_data,
                 curr_weights, checkpoint_weights, entered, result, failures,
                 consecutive, fn>>

\* pickle.dump returns: the whole pickle is written at the file position
DumpOk(r) ==
  /\ pc[r] = "save_dump"
  /\ disk' = [disk EXCEPT ![r].content = @ \o Pickle(replay_data[r])]
  /\ pc' = [pc EXCEPT ![r] = "save_close"]
  /\ UNCHANGED <<iteration, rejections, replay_data, accepted, winrates, opponent,
                 accepted_flag, ctx, played, worker, all_data, sample_data,
                 curr_weights, checkpoint_weights, entered, result, failures,
                 consecutive, fn>>

\* pickle.dump raises part-way: a proper prefix of the pickle (possibly
\* nothing) has been written; `except: pass` and the loop tries again
DumpFail(r) ==
  /\ pc[r] = "save_dump"
  /\ failures < MaxDumpFailures
  /\ \E k \in 0 .. (Len(Pickle(replay_data[r])) - 1) :
       disk' = [disk EXCEPT ![r].content = @ \o SubSeq(Pickle(replay_data[r]), 1, k)]
  /\ failures' = failures + 1
  /\ UNCHANGED <<pc, iteration, rejections, replay_data, accepted, winrates, opponent,
                 accepted_flag, ctx, played, worker, all_data, sample_data,
                 curr_weights, checkpoint_weights, entered, result, consecutive, fn>>

\* a slip: train_step without the comm.Barrier() after the write
PcAfterSaveNoBarrier == "sample_enter"

\* train_step: data.save_replaydata(...) and then comm.Barrier()
PcAfterSave == "barrier_written"

SaveClose(r) ==
  /\ pc[r] = "save_close"
  /\ disk' = [disk EXCEPT ![r].open = FALSE]
  /\ pc' = [pc EXCEPT ![r] = PcAfterSave]
  /\ UNCHANGED <<iteration, rejections, replay_data, accepted, winrates, opponent,
                 accepted_flag, ctx, played, worker, all_data, sample_data,
                 curr_weights, checkpoint_weights, entered, result, failures,
                 consecutive, fn>>

\* train_step: comm.Barrier() returns
ReturnWritten(r) ==
  /\ pc[r] = "barrier_written"
  /\ result[r].some
  /\ result' = [result EXCEPT ![r] = None]
  /\ pc' = [pc EXCEPT ![r] = "sample_enter"]
  /\ UNCHANGED <<iteration, rejections, replay_data, accepted, winrates, opponent,
                 accepted_flag, ctx, played, worker, all_data, sample_data,
                 curr_weights, checkpoint_weights, entered, disk, failures,
                 consecutive, fn>>

\* sample_replaydata is entered: sample_data = None, the loop starts at worker 0
SampleEnter(r) ==
  /\ pc[r] = "sample_enter"
  /\ worker' = [worker EXCEPT ![r] = 0]
  /\ sample_data' = [sample_data EXCEPT ![r] = None]
  /\ pc' = [pc EXCEPT ![r] = "sample_loop"]
  /\ UNCHANGED <<iteration, rejections, replay_data, accepted, winrates, opponent,
                 accepted_flag, ctx, played, all_data, curr_weights,
                 checkpoint_weights, entered, result, disk, failures, consecutive, fn>>

(***************************************************************************)
(* sample_replaydata: for worker in range(world_size): the worker whose    *)
(* rank it is loads, samples and deletes; everyone calls Barrier.          *)
(***************************************************************************)
\* a slip: every worker loads in every round
MyTurnAlways(r) == TRUE

\* if rank == worker
MyTurn(r) == worker[r] = r

\* all_data = load_replaydata(episodesdir); a file that does not unpickle raises
SampleLoad(r) ==
  /\ pc[r] = "sample_loop"
  /\ MyTurn(r)
  /\ LET loaded == load_replaydata(disk, SampleLoadRank(r))
     IN  IF loaded.ok
         THEN /\ all_data' = [all_data EXCEPT ![r] = Some(loaded.v)]
              /\ pc' = [pc EXCEPT ![r] = "sample_pick"]
         ELSE /\ pc' = [pc EXCEPT ![r] = "crashed"]
              /\ UNCHANGED all_data
  /\ UNCHANGED <<iteration, rejections, replay_data, accepted, winrates, opponent,
                 accepted_flag, ctx, played, worker, sample_data, curr_weights,
                 checkpoint_weights, entered, result, disk, failures, consecutive, fn>>

\* replay_len = len(all_data); sample_data = random.sample(all_data, min(request_size, replay_len))
SamplePick(r) ==
  /\ pc[r] = "sample_pick"
  /\ LET replay_len == Len(all_data[r].v)
     IN  \E P \in SamplePositions(replay_len, SampleSize(TrainSize, replay_len)) :
           sample_data' = [sample_data EXCEPT ![r] = Some(Pick(all_data[r].v, P))]
  /\ pc' = [pc EXCEPT ![r] = "sample_del"]
  /\ UNCHANGED <<iteration, rejections, replay_data, accepted, winrates, opponent,
                 accepted_flag, ctx, played, worker, all_data, curr_weights,
                 checkpoint_weights, entered, result, disk, failures, consecutive, fn>>

\* del all_data
SampleDel(r) ==
  /\ pc[r] = "sample_del"
  /\ all_data' = [all_data EXCEPT ![r] = None]
  /\ pc' = [pc EXCEPT ![r] = "sample_barrier"]
  /\ UNCHANGED <<iteration, rejections, replay_data, accepted, winrates, opponent,
                 accepted_flag, ctx, played, worker, sample_data, curr_weights,
                 checkpoint_weights, entered, result, disk, failures, consecutive, fn>>

\* a round of another worker: straight to comm.Barrier()
SampleSkip(r) ==
  /\ pc[r] = "sample_loop"
  /\ ~MyTurn(r)
  /\ pc' = [pc EXCEPT ![r] = "sample_barrier"]
  /\ UNCHANGED <<iteration, rejections, replay_data, accepted, winrates, opponent,
                 accepted_flag, ctx, played, worker, all_data, sample_data,
                 curr_weights, checkpoint_weights, entered, result, disk, failures,
                 consecutive, fn>>

\* comm.Barrier() of the loop returns: the next round, or the loop ends
ReturnSampleBarrier(r) ==
  /\ pc[r] = "sample_barrier"
  /\ result[r].some
  /\ result' = [result EXCEPT ![r] = None]
  /\ worker' = [worker EXCEPT ![r] = @ + 1]
  /\ pc' = [pc EXCEPT ![r] = IF worker[r] + 1 < WorldSize THEN "sample_loop" ELSE "optimize"]
  /\ UNCHANGED <<iteration, rejections, replay_data, accepted, winrates, opponent,
                 accepted_flag, ctx, played, all_data, sample_data, curr_weights,
                 checkpoint_weights, entered, disk, failures, consecutive, fn>>

\* the rest of train_step: the sample is batched (SpecSample), the candidate
\* network takes its gradient steps, and train_step returns; an empty sample
\* raises in trans_trajs_to_numpy
Optimize(r) ==
  /\ pc[r] = "optimize"
  /\ IF Len(sample_data[r].v) = 0
     THEN /\ pc' = [pc EXCEPT ![r] = "crashed"]
          /\ UNCHANGED <<curr_weights, sample_data>>
     ELSE /\ curr_weights' = [curr_weights EXCEPT ![r] = @ + 1]
          /\ sample_data' = [sample_data EXCEPT ![r] = None]
          /\ pc' = [pc EXCEPT ![r] = "eval_check"]
  /\ UNCHANGED <<iteration, rejections, replay_data, accepted, winrates, opponent,
                 accepted_flag, ctx, played, worker, all_data, checkpoint_weights,
                 entered, result, disk, failures, consecutive, fn>>

(***************************************************************************)
(* train: the evaluation of every eval_interval-th iteration.              *)
(***************************************************************************)
\* utils.sync_checkpoint(comm, args, new_pi=curr_pi, old_pi=checkpoint_pi):
\* the checkpoint's parameters become the candidate's
sync_checkpoint(new_weights, old_weights) == new_weights

\* if (iteration + 1) % args.eval_interval == 0
EvalDue(r) == (iteration[r] + 1) % EvalInterval = 0

\* the end of the loop body (the summary line is only printed) and
\* `for iteration in range(args.iterations)`
NextIterationPc(r) == IF iteration[r] + 1 < Iterations THEN "play_games" ELSE "done"

\* evaluate is entered: accepted = False, the first opponent is the checkpoint
EvaluateBegin(r) ==
  /\ pc[r] = "eval_check"
  /\ EvalDue(r)
  /\ accepted_flag' = [accepted_flag EXCEPT ![r] = FALSE]
  /\ opponent' = [opponent EXCEPT ![r] = 1]
  /\ ctx' = [ctx EXCEPT ![r] = "eval"]
  /\ pc' = [pc EXCEPT ![r] = "play_games"]
  /\ UNCHANGED <<iteration, rejections, replay_data, accepted, winrates, played,
                 worker, all_data, sample_data, curr_weights, checkpoint_weights,
                 entered, result, disk, failures, consecutive, fn>>

\* an iteration without evaluation
SkipEvaluate(r) ==
  /\ pc[r] = "eval_check"
  /\ ~EvalDue(r)
  /\ iteration' = [iteration EXCEPT ![r] = @ + 1]
  /\ pc' = [pc EXCEPT ![r] = NextIterationPc(r)]
  /\ UNCHANGED <<rejections, replay_data, accepted, winrates, opponent, accepted_flag,
                 ctx, played, worker, all_data, sample_data, curr_weights,
                 checkpoint_weights, entered, result, disk, failures, consecutive, fn>>

\* a slip: evaluate without the early exit
BreaksNever(o, wr) == FALSE

\* evaluate: `else: break`, taken when the lost match was the checkpoint's
Breaks(o, wr) == Opponents[o] = "checkpoint_pi" /\ ~Promotes(wr)

\* evaluate, after parallel_play against Opponents[opponent]:
\* winrates[opponent] = wr, then the branch on the opponent and on wr
EvalRecord(r) ==
  /\ pc[r] = "after_play"
  /\ ctx[r] = "eval"
  /\ LET wr == played[r].winrate
         o == opponent[r]
         recorded == [winrates[r] EXCEPT ![Opponents[o]] = wr]
         vs_checkpoint == Opponents[o] = "checkpoint_pi"
         promoted == vs_checkpoint /\ Promotes(wr)
         break == Breaks(o, wr)
         flag == IF promoted THEN TRUE ELSE accepted_flag[r]
         last == break \/ o = Len(Opponents)
     IN  /\ winrates' = [winrates EXCEPT ![r] = recorded]
         /\ checkpoint_weights' =
              [checkpoint_weights EXCEPT ![r] =
                 IF promoted THEN sync_checkpoint(curr_weights[r], @) ELSE @]
         /\ accepted_flag' = [accepted_flag EXCEPT ![r] = flag]
         /\ consecutive' = [consecutive EXCEPT ![r] =
                              IF promoted THEN 0 ELSE IF break THEN @ + 1 ELSE @]
         /\ IF last
            THEN \* return accepted, winrates
                 /\ accepted' = [accepted EXCEPT ![r] = PyTuple(<<PyBool(flag), recorded>>)]
                 /\ pc' = [pc EXCEPT ![r] = "eval_ret"]
                 /\ UNCHANGED opponent
            ELSE /\ opponent' = [opponent EXCEPT ![r] = o + 1]
                 /\ pc' = [pc EXCEPT ![r] = "play_games"]
                 /\ UNCHANGED accepted
  /\ played' = [played EXCEPT ![r] = NoPlay]
  /\ UNCHANGED <<iteration, rejections, replay_data, ctx, worker, all_data,
                 sample_data, curr_weights, entered, result, disk, failures, fn>>

\* train: accepted = evaluate(...); if accepted == True: clear, rejections = 0
\* else: rejections += 1.  Then the loop goes on.
AcceptBranch(r) ==
  /\ pc[r] = "eval_ret"
  /\ IF PyEq(accepted[r], PyBool(TRUE))
     THEN /\ replay_data' = [replay_data EXCEPT ![r] = <<>>]
          /\ rejections' = [rejections EXCEPT ![r] = 0]
     ELSE /\ rejections' = [rejections EXCEPT ![r] = @ + 1]
          /\ UNCHANGED replay_data
  /\ iteration' = [iteration EXCEPT ![r] = @ + 1]
  /\ ctx' = [ctx EXCEPT ![r] = "selfplay"]
  /\ pc' = [pc EXCEPT ![r] = NextIterationPc(r)]
  /\ UNCHANGED <<accepted, winrates, opponent, accepted_flag, played, worker,
                 all_data, sample_data, curr_weights, checkpoint_weights, entered,
                 result, disk, failures, consecutive, fn>>

Next ==
  \E r \in Ranks :
    \/ PlayGames(r)
    \/ Enter(r)
    \/ ReturnTime(r)
    \/ ReturnWinrate(r)
    \/ ReturnSteps(r)
    \/ AfterSelfPlay(r)
    \/ SaveOpen(r)
    \/ DumpOk(r)
    \/ DumpFail(r)
    \/ SaveClose(r)
    \/ ReturnWritten(r)
    \/ SampleEnter(r)
    \/ SampleLoad(r)
    \/ SamplePick(r)
    \/ SampleDel(r)
    \/ SampleSkip(r)
    \/ ReturnSampleBarrier(r)
    \/ Optimize(r)
    \/ EvaluateBegin(r)
    \/ SkipEvaluate(r)
    \/ EvalRecord(r)
    \/ AcceptBranch(r)

Spec == Init /\ [][Next]_vars

\* the workers are processes of their own: a worker that can take a step
\* takes one
SpecFair == Init /\ [][Next]_vars /\ WF_vars(Next)

(***************************************************************************)
(* sample_replaydata on its own: from the loaded pool to the batches.      *)
(* fn holds the function's variables; a trajectory is its position in the  *)
(* pool and its number of transitions.                                     *)
(***************************************************************************)
\* the largest pool, in trajectories
MaxPool == 3
\* the longest trajectory, in transitions
MaxTrajLen == 2
\* the largest pool, in transitions
MaxTransitions == 4
\* the largest request_size
MaxRequest == 3
\* the largest batchsize
MaxBatch == 3

\* the components of a transition: state, action, reward, next_state,
\* terminal, win, pi
NumComponents == 7

RECURSIVE SumLens(_)
SumLens(trajs) == IF trajs = <<>> THEN 0 ELSE Head(trajs).len + SumLens(Tail(trajs))

\* the pools load_replaydata may return: non-empty trajectories
Pools ==
  {pool \in UNION {[1 .. n -> [id : 1 .. MaxPool, len : 1 .. MaxTrajLen]] : n \in 1 .. MaxPool} :
     /\ \A i \in DOMAIN pool : pool[i].id = i
     /\ SumLens(pool) <= MaxTransitions}

\* traj.transpose(): the trajectory's transitions, in order
transpose(traj) == [j \in 1 .. traj.len |-> [traj |-> traj.id, step |-> j]]

\* replays_to_trans_trajs
replays_to_trans_trajs(replay) == Concat([i \in 1 .. Len(replay) |-> transpose(replay[i])])

\* what random.shuffle may leave: every order of the list
Shuffles(xs) ==
  LET n == Len(xs)
      perms == {p \in [1 .. n -> 1 .. n] : \A i, j \in 1 .. n : p[i] = p[j] => i = j}
  IN  {[i \in 1 .. n |-> xs[p[i]]] : p \in perms}

\* trans_trajs_to_numpy: one array per component, in the list's order
trans_trajs_to_numpy(trans) ==
  [c \in 1 .. NumComponents |-> [i \in 1 .. Len(trans) |-> [c |-> c, of |-> trans[i]]]]

\* a slip: as many batches as it takes for none to exceed batchsize
SplitsCeil(sample_size, batchsize) == CeilDiv(sample_size, batchsize)

\* splits = max(sample_size // batchsize, 1)
Splits(sample_size, batchsize) == Max(sample_size \div batchsize, 1)

\* the length of section i (from 1) of np.array_split(a, k) for len(a) = n:
\* the first n % k sections have n // k + 1 elements, the others n // k
SectionLen(n, k, i) == (n \div k) + (IF i <= n % k THEN 1 ELSE 0)

\* where section i starts (from 0)
SectionStart(n, k, i) == (i - 1) * (n \div k) + Min(i - 1, n % k)

\* np.array_split(a, k)
array_split(a, k) ==
  [i \in 1 .. k |->
     SubSeq(a, SectionStart(Len(a), k, i) + 1,
               SectionStart(Len(a), k, i) + SectionLen(Len(a), k, i))]

\* list(zip(*batched_sampledata)): batch i is the i-th section of every component
zip_batches(per_component, k) ==
  [i \in 1 .. k |-> [c \in 1 .. NumComponents |-> per_component[c][i]]]

FnInputs ==
  [pc : {"sample"}, all_data : Pools, request_size : 1 .. MaxRequest,
   batchsize : 1 .. MaxBatch, replay_len : {0}, sampled : {<<>>},
   concat_trajs : {<<>>}, sample_data : {<<>>}, batches : {<<>>}]

\* replay_len = len(all_data); sample_data = random.sample(...); del all_data
FnSample ==
  /\ fn.pc = "sample"
  /\ LET replay_len == Len(fn.all_data)
     IN  \E P \in SamplePositions(replay_len, SampleSize(fn.request_size, replay_len)) :
           fn' = [fn EXCEPT !.pc = "flatten", !.replay_len = replay_len,
                            !.sampled = Pick(fn.all_data, P)]
  /\ UNCHANGED trainvars

\* concat_trajs = replays_to_trans_trajs(sample_data)
FnFlatten ==
  /\ fn.pc = "flatten"
  /\ fn' = [fn EXCEPT !.pc = "shuffle", !.concat_trajs = replays_to_trans_trajs(fn.sampled)]
  /\ UNCHANGED trainvars

\* random.shuffle(concat_trajs)
FnShuffle ==
  /\ fn.pc = "shuffle"
  /\ \E shuffled \in Shuffles(fn.concat_trajs) :
       fn' = [fn EXCEPT !.pc = "numpy", !.concat_trajs = shuffled]
  /\ UNCHANGED trainvars

\* sample_data = trans_trajs_to_numpy(concat_trajs); the asserts on the lengths
FnToNumpy ==
  /\ fn.pc = "numpy"
  /\ LET arrays == trans_trajs_to_numpy(fn.concat_trajs)
     IN  IF \A c \in 1 .. NumComponents : Len(arrays[c]) = Len(arrays[1])
         THEN fn' = [fn EXCEPT !.pc = "split", !.sample_data = arrays]
         ELSE fn' = [fn EXCEPT !.pc = "crashed"]
  /\ UNCHANGED trainvars

\* splits, np.array_split of every component, zip; return batches, replay_len
FnSplit ==
  /\ fn.pc = "split"
  /\ LET sample_size == Len(fn.sample_data[1])
         splits == Splits(sample_size, fn.batchsize)
         per_component == [c \in 1 .. NumComponents |-> array_split(fn.sample_data[c], splits)]
     IN  fn' = [fn EXCEPT !.pc = "done", !.batches = zip_batches(per_component, splits)]
  /\ UNCHANGED trainvars

SampleInit == TrainInit /\ fn \in FnInputs

SampleNext == FnSample \/ FnFlatten \/ FnShuffle \/ FnToNumpy \/ FnSplit

SpecSample == SampleInit /\ [][SampleNext]_vars

(***************************************************************************)
(* Properties of the training loop (checked under Spec).                   *)
(***************************************************************************)
\* the worker is at the start of a training phase (train_step is entered)
AtTrainStep(r) == pc[r] = "play_games" /\ ctx[r] = "selfplay"

\* evaluate's step after the match against the checkpoint, taken by r
CheckpointMatchStep(r) ==
  /\ pc[r] = "after_play"
  /\ ctx[r] = "eval"
  /\ Opponents[opponent[r]] = "checkpoint_pi"
  /\ pc'[r] # "after_play"

\* the win rate of the match just played exceeds 0.55
WonMatch(r) == played[r].winrate > PromoteThresholdPct * WorldSize

\* the trajectories a file holds, if it unpickles
FileTrajs(q) == Range(Unpickle(disk[q].content).v)

\* C1: once an evaluation has promoted the candidate, the replay deque is
\* cleared before the next training phase: at the start of a training phase
\* the deque holds no trajectory played with parameters older than the
\* checkpoint's, and none is persisted or sampled afterwards.
C1_ReplayClearedOnPromotion ==
  \A r \in Ranks :
    /\ AtTrainStep(r) =>
         \A i \in 1 .. Len(replay_data[r]) : replay_data[r][i].ck = checkpoint_weights[r]
    /\ (pc[r] = "barrier_written" /\ Unpickle(disk[r].content).ok) =>
         \A t \in FileTrajs(r) : t.ck = checkpoint_weights[r]
    /\ sample_data[r].some =>
         \A t \in Range(sample_data[r].v) : t.ck = checkpoint_weights[r]

\* C2: the checkpoint's parameters change exactly in the step of a due
\* evaluation that follows a match against the checkpoint won with a win rate
\* strictly above 0.55, and then they become the candidate's; no other step
\* changes them.
C2_PromotionRule ==
  [][\A r \in Ranks :
       /\ checkpoint_weights'[r] # checkpoint_weights[r] =>
            CheckpointMatchStep(r) /\ WonMatch(r) /\ EvalDue(r)
       /\ (CheckpointMatchStep(r) /\ WonMatch(r)) =>
            /\ checkpoint_weights'[r] = curr_weights[r]
            /\ checkpoint_weights'[r] # checkpoint_weights[r]]_vars

\* C2's case: a worker that promoted in one evaluation and, in a later one,
\* met a win rate of exactly 0.55 and kept its checkpoint
C2_Witness ==
  \E r \in Ranks :
    /\ pc[r] = "eval_ret"
    /\ winrates[r]["checkpoint_pi"] = PromoteThresholdPct * WorldSize
    /\ checkpoint_weights[r] > 0
    /\ checkpoint_weights[r] < curr_weights[r]

\* C3: at the start of every training phase the rejection counter is the
\* number of consecutive non-promoting evaluations since the last promotion,
\* and the self-play request is (2 ^ counter) * args.episodes.
C3_RejectionCounter ==
  \A r \in Ranks :
    /\ AtTrainStep(r) => rejections[r] = consecutive[r]
    /\ (pc[r] = "ar_time" /\ ctx[r] = "selfplay") =>
         played[r].req = Pow2(consecutive[r]) * Episodes

\* the state part of C4: an opponent after the checkpoint is reached only
\* with a checkpoint win rate above 0.55; evaluate returns after the last
\* opponent if the checkpoint match was won and after the first otherwise
C4_Order ==
  \A r \in Ranks :
    /\ (ctx[r] = "eval" /\ opponent[r] > 1) =>
         winrates[r]["checkpoint_pi"] > PromoteThresholdPct * WorldSize
    /\ pc[r] = "eval_ret" =>
         IF winrates[r]["checkpoint_pi"] > PromoteThresholdPct * WorldSize
         THEN opponent[r] = Len(Opponents)
         ELSE opponent[r] = 1

\* the step part of C4: the opponents follow in list order; the win rates
\* against random and greedy change only in their own match; the step after
\* the checkpoint match records its win rate and, if lost, returns at once
C4_Frame ==
  \A r \in Ranks :
    /\ opponent'[r] # opponent[r] =>
         \/ opponent'[r] = opponent[r] + 1 /\ pc[r] = "after_play"
         \/ opponent'[r] = 1 /\ pc[r] = "eval_check"
    /\ \A o \in {"RAND_PI", "GREEDY_PI"} :
         winrates'[r][o] # winrates[r][o] =>
           /\ pc[r] = "after_play" /\ ctx[r] = "eval"
           /\ Opponents[opponent[r]] = o
           /\ winrates[r]["checkpoint_pi"] > PromoteThresholdPct * WorldSize
    /\ CheckpointMatchStep(r) =>
         /\ winrates'[r]["checkpoint_pi"] = played[r].winrate
         /\ ~WonMatch(r) =>
              /\ pc'[r] = "eval_ret"
              /\ winrates'[r]["RAND_PI"] = winrates[r]["RAND_PI"]
              /\ winrates'[r]["GREEDY_PI"] = winrates[r]["GREEDY_PI"]

\* C4: the order and the early exit of evaluate hold in every state, and the
\* win rates against random and greedy change only in their own match, which
\* is played only after a won checkpoint match.
C4_EvaluationOrder == [](C4_Order) /\ [][C4_Frame]_vars

\* C4's case: an evaluation that lost the checkpoint match returns with the
\* win rates against random and greedy of an earlier evaluation
C4_Witness ==
  \E r \in Ranks :
    /\ pc[r] = "eval_ret"
    /\ opponent[r] = 1
    /\ winrates[r]["checkpoint_pi"] <= PromoteThresholdPct * WorldSize
    /\ winrates[r]["RAND_PI"] > 0
    /\ winrates[r]["GREEDY_PI"] > 0

\* C5: at most one worker holds a loaded replay set; while worker r holds
\* one, the workers of lower rank have sampled and released theirs in this
\* call and those of higher rank have not loaded yet.
C5_OneLoaderInRankOrder ==
  \A r \in Ranks :
    all_data[r].some =>
      /\ \A q \in Ranks \ {r} : ~all_data[q].some
      /\ \A q \in Ranks : q < r => sample_data[q].some /\ worker[q] >= q
      /\ \A q \in Ranks : q > r => ~sample_data[q].some

\* C5's case: a worker other than the first holds the loaded replay set
C5_Witness == \E r \in Ranks : r > 0 /\ all_data[r].some /\ sample_data[r].some

\* C6: while a worker is in the loading loop of sample_replaydata, every
\* worker has written and closed its shard of the same iteration, and a
\* loaded replay set holds every worker's buffer, so a trajectory of this
\* iteration from each worker.
C6_ShardsWrittenBeforeLoad ==
  \A r \in Ranks :
    /\ pc[r] \in {"sample_loop", "sample_pick", "sample_del"} =>
         \A q \in Ranks :
           /\ disk[q].exists /\ ~disk[q].open
           /\ iteration[q] = iteration[r]
           /\ pc[q] \in {"barrier_written", "sample_enter", "sample_loop", "sample_pick",
                         "sample_del", "sample_barrier", "optimize", "crashed"}
    /\ all_data[r].some =>
         \A q \in Ranks :
           /\ Range(replay_data[q]) \subseteq Range(all_data[r].v)
           /\ \E t \in Range(all_data[r].v) : t.w = q /\ t.it = iteration[r]

\* C6's case: a worker has loaded the pool in a later iteration
C6_Witness ==
  \E r \in Ranks : all_data[r].some /\ iteration[r] > 0 /\ Len(all_data[r].v) > WorldSize

\* C8 (as claimed): a worker's sample holds only trajectories of its own shard.
C8_OwnShardOnly ==
  \A r \in Ranks :
    sample_data[r].some => \A t \in Range(sample_data[r].v) : t.w = r

\* C8 (amended): a worker's pool is the concatenation of every worker's shard
\* file, and its sample is drawn from that pool.
C8_SampleFromAllShards ==
  \A r \in Ranks :
    /\ all_data[r].some =>
         /\ Range(all_data[r].v) = UNION {FileTrajs(q) : q \in Ranks}
         /\ Len(all_data[r].v) = SumOver([q \in Ranks |-> Len(Unpickle(disk[q].content).v)], Ranks)
    /\ (all_data[r].some /\ sample_data[r].some) =>
         Range(sample_data[r].v) \subseteq Range(all_data[r].v)
    /\ sample_data[r].some =>
         Range(sample_data[r].v) \subseteq UNION {FileTrajs(q) : q \in Ranks}

\* C8's case: a sample that holds a trajectory of another worker's shard
C8_Witness ==
  \E r \in Ranks :
    /\ sample_data[r].some
    /\ \E t \in Range(sample_data[r].v) : t.w # r

\* C10: once save_replaydata has returned, the worker's file holds exactly
\* the pickle of its replay buffer, and loading it yields the buffer.
C10_SavedFileIsBuffer ==
  \A r \in Ranks :
    pc[r] = "barrier_written" =>
      /\ disk[r].content = Pickle(replay_data[r])
      /\ Unpickle(disk[r].content).ok
      /\ Unpickle(disk[r].content).v = replay_data[r]

(***************************************************************************)
(* Properties of sample_replaydata's result (checked under SpecSample).    *)
(***************************************************************************)
\* the number of transitions of a batch
BatchLen(batch) == Len(batch[1])

\* the transitions of the batches, batch after batch
BatchedTransitions(batches) ==
  LET firsts == Concat([i \in 1 .. Len(batches) |-> batches[i][1]])
  IN  [i \in 1 .. Len(firsts) |-> firsts[i].of]

NoRepeats(xs) == \A i, j \in 1 .. Len(xs) : xs[i] = xs[j] => i = j

\* the batches cut every component array into consecutive pieces, the same
\* way for all seven components
BatchesPartition(batches, arrays) ==
  /\ \A c \in 1 .. NumComponents :
       Concat([i \in 1 .. Len(batches) |-> batches[i][c]]) = arrays[c]
  /\ \A i \in 1 .. Len(batches) : \A c \in 1 .. NumComponents :
       /\ Len(batches[i][c]) = BatchLen(batches[i])
       /\ \A j \in 1 .. BatchLen(batches[i]) : batches[i][c][j].of = batches[i][1][j].of

\* C7 (as claimed): the batches hold exactly min(request_size, A) transitions,
\* A being the reported pool size, and no transition twice.
C7_SampleSizeInTransitions ==
  fn.pc = "done" =>
    /\ Len(BatchedTransitions(fn.batches)) = Min(fn.request_size, fn.replay_len)
    /\ NoRepeats(BatchedTransitions(fn.batches))

\* C7 (amended): the sample is min(request_size, A) distinct trajectories of
\* the pool, A being the number of trajectories in the pool, which is what is
\* reported; the batches hold every transition of those trajectories exactly
\* once, so as many transitions as the sampled trajectories are long.
C7_SampleSizeInTrajectories ==
  fn.pc = "done" =>
    /\ fn.replay_len = Len(fn.all_data)
    /\ Len(fn.sampled) = Min(fn.request_size, fn.replay_len)
    /\ NoRepeats(fn.sampled)
    /\ Range(fn.sampled) \subseteq Range(fn.all_data)
    /\ NoRepeats(BatchedTransitions(fn.batches))
    /\ Len(BatchedTransitions(fn.batches)) = SumLens(fn.sampled)
    /\ Range(BatchedTransitions(fn.batches)) =
         UNION {{[traj |-> t.id, step |-> j] : j \in 1 .. t.len} : t \in Range(fn.sampled)}

\* C7's case: a finished call whose batches hold more transitions than
\* min(request_size, A), from a request smaller than the pool
C7_Witness ==
  /\ fn.pc = "done"
  /\ fn.request_size < fn.replay_len
  /\ Len(BatchedTransitions(fn.batches)) > Min(fn.request_size, fn.replay_len)

NumSearches == 3
\* the actions of a state
NumMoves == 2
\* the game is over after this many moves at the latest
MaxDepth == 2

Moves == 1 .. NumMoves

RECURSIVE NodesAt(_)
\* the nodes at a depth
NodesAt(d) ==
  IF d = 0 THEN {<<>>}
  ELSE {Append(n, m) : n \in NodesAt(d - 1), m \in Moves}

Nodes == UNION {NodesAt(d) : d \in 0 .. MaxDepth}

\* the values np.tanh(logit) may take, in the model
SearchVals == {-1, 1}

\* montecarlo.invert_val
invert_val(val) == 0 - val

\* the node and its ancestors up to the root
PathToRoot(n) == {SubSeq(n, 1, k) : k \in 0 .. Len(n)}

\* Node.backprop: every node from the leaf up to the root counts one more
\* completed backpropagation
backprop(visits, n) ==
  [x \in Nodes |-> IF x \in PathToRoot(n) THEN visits[x] + 1 ELSE visits[x]]

\* Node.traverse(move): the child behind the move, created on first use
traverse(n, move) == Append(n, move)

Call(op, arg) == [op |-> op, arg |-> arg]

\* a call of mct_search on a game whose terminal states are the nodes T
SearchInputs(T) ==
  [pc |-> "loop", i |-> 0, curr_node |-> <<>>, terminal |-> T,
   visits |-> [x \in Nodes |-> 0], prior_pi |-> {}, landed |-> None,
   invert_val |-> None, calls |-> <<>>, move_visits |-> None]

\* for i in range(num_searches): curr_node = rootnode
SearchIterate ==
  /\ fn.pc = "loop"
  /\ fn.i < NumSearches
  /\ fn' = [fn EXCEPT !.pc = "select", !.curr_node = <<>>, !.landed = None,
                      !.invert_val = None, !.calls = <<>>]
  /\ UNCHANGED trainvars

\* return rootnode.get_move_visits()
SearchReturn ==
  /\ fn.pc = "loop"
  /\ fn.i = NumSearches
  /\ fn' = [fn EXCEPT !.pc = "done",
                      !.move_visits = Some([m \in Moves |-> fn.visits[<<m>>]])]
  /\ UNCHANGED trainvars

\* while curr_node.visits > 0 and not curr_node.terminal: the move of the
\* largest upper-confidence score is one of the node's moves
SearchTraverse ==
  /\ fn.pc = "select"
  /\ fn.visits[fn.curr_node] > 0 /\ fn.curr_node \notin fn.terminal
  /\ \E move \in Moves : fn' = [fn EXCEPT !.curr_node = traverse(fn.curr_node, move)]
  /\ UNCHANGED trainvars

\* the while loop's exit
SearchSelected ==
  /\ fn.pc = "select"
  /\ ~(fn.visits[fn.curr_node] > 0 /\ fn.curr_node \notin fn.terminal)
  /\ fn' = [fn EXCEPT !.pc = "terminal_check", !.landed = Some(fn.curr_node)]
  /\ UNCHANGED trainvars

\* if curr_node.terminal: curr_node.backprop(None); the statement after the
\* if is the next one executed
SearchTerminalBackprop ==
  /\ fn.pc = "terminal_check"
  /\ fn.curr_node \in fn.terminal
  /\ fn' = [fn EXCEPT !.pc = "evaluate",
                      !.visits = backprop(fn.visits, fn.curr_node),
                      !.calls = Append(@, Call("backprop", None))]
  /\ UNCHANGED trainvars

SearchNotTerminal ==
  /\ fn.pc = "terminal_check"
  /\ fn.curr_node \notin fn.terminal
  /\ fn' = [fn EXCEPT !.pc = "evaluate"]
  /\ UNCHANGED trainvars

\* logit = val_func(...); val = np.tanh(logit); invert_val; prior_qs =
\* pi_func(...); prior_pi = special.softmax(...)
SearchEvaluate ==
  /\ fn.pc = "evaluate"
  /\ \E val \in SearchVals :
       fn' = [fn EXCEPT !.pc = "set_prior",
                        !.invert_val = Some(invert_val(val)),
                        !.calls = @ \o <<Call("val_func", Some(fn.curr_node)),
                                         Call("pi_func", Some(fn.curr_node))>>]
  /\ UNCHANGED trainvars

\* curr_node.set_prior_pi(prior_pi)
SearchSetPrior ==
  /\ fn.pc = "set_prior"
  /\ fn' = [fn EXCEPT !.pc = "backprop",
                      !.prior_pi = @ \cup {fn.curr_node},
                      !.calls = Append(@, Call("set_prior_pi", Some(fn.curr_node)))]
  /\ UNCHANGED trainvars

\* curr_node.backprop(invert_val); the end of the loop's body
SearchBackprop ==
  /\ fn.pc = "backprop"
  /\ fn' = [fn EXCEPT !.pc = "loop", !.i = @ + 1,
                      !.visits = backprop(fn.visits, fn.curr_node),
                      !.calls = Append(@, Call("backprop", fn.invert_val))]
  /\ UNCHANGED trainvars

\* the terminal flags the game may give the nodes: a game of at most
\* MaxDepth moves, which may end earlier
SearchInit ==
  /\ TrainInit
  /\ \E S \in SUBSET (Nodes \ NodesAt(MaxDepth)) :
       fn = SearchInputs(S \cup NodesAt(MaxDepth))

SearchNext ==
  \/ SearchIterate \/ SearchReturn \/ SearchTraverse \/ SearchSelected
  \/ SearchTerminalBackprop \/ SearchNotTerminal \/ SearchEvaluate
  \/ SearchSetPrior \/ SearchBackprop

SpecSearch == SearchInit /\ [][SearchNext]_vars

(***************************************************************************)
(* Properties of mct_search (checked under SpecSearch).                    *)
(***************************************************************************)
\* an iteration of the loop has just ended, and its selection had ended on a
\* terminal node
TerminalIterationEnded ==
  /\ fn.pc = "loop"
  /\ fn.landed.some
  /\ fn.landed.v \in fn.terminal

\* C11: in every iteration whose selection ends on a terminal node, the
\* iteration's calls are exactly one backprop(None) on that node: val_func
\* and pi_func are not invoked, no prior is set on the node, and the loop
\* goes on to its next iteration.
C11_TerminalShortCircuit ==
  TerminalIterationEnded =>
    /\ fn.calls = <<Call("backprop", None)>>
    /\ fn.landed.v \notin fn.prior_pi

(***************************************************************************)
(* Q-values (go_ai/montecarlo/__init__.py) and MCTS.mcts_qvals             *)
(* (go_ai/policies.py).  Actions are 1 .. action_size; a state is given by *)
(* its valid-move indicators; the children of a state are numbered in the  *)
(* order of its valid actions.  Values are integers (a fixed unit), the    *)
(* inputs even so that the mean of two of them is exact.                   *)
(***************************************************************************)
\* GoGame.get_action_size(state)
ActionSize == 3
\* the largest num_searches of MCTS
MaxSearches == 2

Actions == 1 .. ActionSize

\* the values val_func may return
ChildVals == {-2, 0, 2}

\* the valid-move indicators of a state: passing is always valid
Masks == {m \in [Actions -> {0, 1}] : \E a \in Actions : m[a] = 1}

\* np.argwhere(valid_moves): the valid actions in increasing order
argwhere(valid_moves) == SetToSeq({a \in DOMAIN valid_moves : valid_moves[a] = 1})

\* a slip: the value is indexed by the action, not by the child's position
vals_to_qs_by_action(canonical_childvals, valid_moves) ==
  [a \in DOMAIN valid_moves |->
     IF valid_moves[a] = 1 /\ a \in DOMAIN canonical_childvals
     THEN invert_val(canonical_childvals[a]) ELSE 0]

\* vals_to_qs: qvals = np.zeros(action_size); for child_idx, action in
\* enumerate(np.argwhere(valid_moves)): qvals[action] = invert_val(child_val)
vals_to_qs(canonical_childvals, valid_moves) ==
  LET actions == argwhere(valid_moves)
  IN  [a \in DOMAIN valid_moves |->
         IF \E child_idx \in DOMAIN actions : actions[child_idx] = a
         THEN LET child_idx == CHOOSE i \in DOMAIN actions : actions[i] = a
              IN  invert_val(canonical_childvals[child_idx])
         ELSE 0]

\* np.argsort(child_vals.flatten()): an order of the children by ascending
\* value (which of two equal values comes first is the sort's choice)
argsort(vals) ==
  {p \in [DOMAIN vals -> DOMAIN vals] :
     /\ \A i, j \in DOMAIN vals : p[i] = p[j] => i = j
     /\ \A i, j \in DOMAIN vals : i < j => vals[p[i]] <= vals[p[j]]}

\* np.mean([a, b])
mean2(a, b) == (a + b) \div 2

\* np.min of a vector
MinOf(f) == CHOOSE x \in {f[a] : a \in DOMAIN f} : \A a \in DOMAIN f : x <= f[a]

\* a call of mcts_qvals: a state with its children's values, which of the
\* children are ended games, and the least value among each child's children
QvalsInputs(ns, m, cv, e, g) ==
  [pc |-> "prior", num_searches |-> ns, valid_indicators |-> m, child_vals |-> cv,
   ended |-> e, grand_min |-> g,
   prior_qs |-> [a \in Actions |-> 0], post_qs |-> [a \in Actions |-> 0],
   ordered_child_idcs |-> <<>>, at |-> 1, deepened |-> {},
   bias_correction |-> None, corrected |-> {}]

\* get_children returns one child per valid action; an ended game has no
\* children
QvalsWellFormed(f) ==
  /\ Len(f.child_vals) = Len(argwhere(f.valid_indicators))
  /\ Len(f.ended) = Len(f.child_vals)
  /\ Len(f.grand_min) = Len(f.child_vals)
  /\ \A c \in DOMAIN f.ended : f.ended[c] => f.grand_min[c] = 0

\* prior_qs = montecarlo.vals_to_qs(child_vals, canonical_state);
\* post_qs = np.copy(prior_qs); if self.num_searches > 0: ... argsort
QvalsPrior ==
  /\ fn.pc = "prior"
  /\ fn.num_searches > 0
  /\ LET qs == vals_to_qs(fn.child_vals, fn.valid_indicators)
     IN  \E order \in argsort(fn.child_vals) :
           fn' = [fn EXCEPT !.pc = "best", !.prior_qs = qs, !.post_qs = qs,
                            !.ordered_child_idcs = order, !.at = 1]
  /\ UNCHANGED trainvars

\* num_searches = 0: return prior_qs, post_qs
QvalsNoSearch ==
  /\ fn.pc = "prior"
  /\ fn.num_searches = 0
  /\ LET qs == vals_to_qs(fn.child_vals, fn.valid_indicators)
     IN  fn' = [fn EXCEPT !.pc = "done", !.prior_qs = qs, !.post_qs = qs]
  /\ UNCHANGED trainvars

\* ordered_child_idcs[:num_searches]
BestUpTo(f) == Min(f.num_searches, Len(f.ordered_child_idcs))

\* for child_idx in best_child_idcs: a child that is not an ended game
QvalsDeepen ==
  /\ fn.pc = "best"
  /\ fn.at <= BestUpTo(fn)
  /\ LET child_idx == fn.ordered_child_idcs[fn.at]
         action_to_child == argwhere(fn.valid_indicators)[child_idx]
         new_childval == fn.grand_min[child_idx]
         curr_qval == fn.prior_qs[action_to_child]
         new_qval == mean2(curr_qval, new_childval)
     IN  /\ ~fn.ended[child_idx]
         /\ fn' = [fn EXCEPT !.at = @ + 1, !.deepened = @ \cup {child_idx},
                             !.post_qs[action_to_child] = new_qval]
  /\ UNCHANGED trainvars

\* if GoGame.get_game_ended(child): continue
QvalsSkipEnded ==
  /\ fn.pc = "best"
  /\ fn.at <= BestUpTo(fn)
  /\ fn.ended[fn.ordered_child_idcs[fn.at]]
  /\ fn' = [fn EXCEPT !.at = @ + 1]
  /\ UNCHANGED trainvars

\* changes = np.sum(post_qs != prior_qs); if changes > 0:
\* bias_correction = np.min(post_qs - prior_qs), over the whole vector
QvalsBias ==
  /\ fn.pc = "best"
  /\ fn.at > BestUpTo(fn)
  /\ LET changes == Cardinality({a \in Actions : fn.post_qs[a] # fn.prior_qs[a]})
     IN  IF changes > 0
         THEN fn' = [fn EXCEPT !.pc = "remaining",
                               !.bias_correction =
                                  Some(MinOf([a \in Actions |-> fn.post_qs[a] - fn.prior_qs[a]]))]
         ELSE fn' = [fn EXCEPT !.pc = "done"]
  /\ UNCHANGED trainvars

\* for child_idx in remaining_child_idcs: post_qs[action_to_child] +=
\* bias_correction, unless the child is an ended game
QvalsCorrect ==
  /\ fn.pc = "remaining"
  /\ fn.at <= Len(fn.ordered_child_idcs)
  /\ LET child_idx == fn.ordered_child_idcs[fn.at]
         action_to_child == argwhere(fn.valid_indicators)[child_idx]
     IN  IF fn.ended[child_idx]
         THEN fn' = [fn EXCEPT !.at = @ + 1]
         ELSE fn' = [fn EXCEPT !.at = @ + 1, !.corrected = @ \cup {child_idx},
                               !.post_qs[action_to_child] = @ + fn.bias_correction.v]
  /\ UNCHANGED trainvars

\* return prior_qs, post_qs
QvalsReturn ==
  /\ fn.pc = "remaining"
  /\ fn.at > Len(fn.ordered_child_idcs)
  /\ fn' = [fn EXCEPT !.pc = "done"]
  /\ UNCHANGED trainvars

QvalsInit ==
  /\ TrainInit
  /\ \E ns \in 0 .. MaxSearches : \E m \in Masks :
       LET children == 1 .. Len(argwhere(m))
       IN  \E cv \in [children -> ChildVals] : \E e \in [children -> BOOLEAN] :
             \E g \in [children -> ChildVals] :
               /\ fn = QvalsInputs(ns, m, cv, e, g)
               /\ QvalsWellFormed(fn)

QvalsNext ==
  \/ QvalsPrior \/ QvalsNoSearch \/ QvalsDeepen \/ QvalsSkipEnded
  \/ QvalsBias \/ QvalsCorrect \/ QvalsReturn

SpecQvals == QvalsInit /\ [][QvalsNext]_vars

(***************************************************************************)
(* Properties of mcts_qvals and vals_to_qs (checked under SpecQvals).      *)
(***************************************************************************)
\* the action of a child
ActionOf(child_idx) == argwhere(fn.valid_indicators)[child_idx]

\* post_q - prior_q of a child
Delta(child_idx) == fn.post_qs[ActionOf(child_idx)] - fn.prior_qs[ActionOf(child_idx)]

\* C12: after mcts_qvals with num_searches > 0, no ended child was deepened,
\* and if a child was deepened, what was added to every child that is not an
\* ended game and was not deepened is the least post_q - prior_q among the
\* deepened children.
C12_BiasOverDeepened ==
  (fn.pc = "done" /\ fn.num_searches > 0) =>
    /\ \A c \in fn.deepened : ~fn.ended[c]
    /\ fn.deepened # {} =>
         \A c \in DOMAIN fn.child_vals :
           (~fn.ended[c] /\ c \notin fn.deepened) =>
              \A d \in fn.deepened :
                (\A x \in fn.deepened : Delta(d) <= Delta(x)) => Delta(c) = Delta(d)

(***************************************************************************)
(* batchqs_from_valfunc (go_ai/montecarlo/__init__.py) on a batch of       *)
(* states.  A child is named by its parent state and the action that leads *)
(* to it; val_func is a function of the child alone.                       *)
(***************************************************************************)
\* the largest batch of states
MaxStates == 2

\* GoGame.get_children(state, group_map, canonical=True): one child per valid
\* action, in the order of the actions
get_children(state) ==
  LET actions == argwhere(state)
  IN  [i \in DOMAIN actions |-> [parent |-> state, action |-> actions[i]]]

RECURSIVE MaskCode(_, _)
\* the indicators of a state read as a binary number
MaskCode(state, a) ==
  IF a = 0 THEN 0 ELSE state[a] + 2 * MaskCode(state, a - 1)

\* the value functions of the model: each gives every child a value of its
\* own, different from zero, so that a value taken from another child or
\* another row shows
ValFuncs == {-1, 1}

\* val_func(np.array(canonical_children)): the children's values, in order
val_func(k, children) ==
  [i \in DOMAIN children |->
     k * (MaskCode(children[i].parent, ActionSize) * (ActionSize + 1) + children[i].action)]

\* qs_from_valfunc
qs_from_valfunc(state, k) ==
  LET canonical_children == get_children(state)
      child_vals == val_func(k, canonical_children)
  IN  [qvals |-> vals_to_qs(child_vals, state), canonical_children |-> canonical_children]

BatchQsInputs ==
  {[pc |-> "rows", states |-> ss, val_func |-> k, at |-> 1,
    batch_qvals |-> <<>>, batch_canon_children |-> <<>>] :
     ss \in UNION {[1 .. n -> Masks] : n \in 1 .. MaxStates}, k \in ValFuncs}

\* for state, group_map in zip(states, group_maps): qs_from_valfunc; append
BatchQsRow ==
  /\ fn.pc = "rows"
  /\ fn.at <= Len(fn.states)
  /\ LET r == qs_from_valfunc(fn.states[fn.at], fn.val_func)
     IN  fn' = [fn EXCEPT !.at = @ + 1,
                          !.batch_qvals = Append(@, r.qvals),
                          !.batch_canon_children = Append(@, r.canonical_children)]
  /\ UNCHANGED trainvars

\* return np.array(batch_qvals), batch_canon_children
BatchQsReturn ==
  /\ fn.pc = "rows"
  /\ fn.at > Len(fn.states)
  /\ fn' = [fn EXCEPT !.pc = "done"]
  /\ UNCHANGED trainvars

BatchQsInit == TrainInit /\ fn \in BatchQsInputs

BatchQsNext == BatchQsRow \/ BatchQsReturn

SpecBatchQs == BatchQsInit /\ [][BatchQsNext]_vars

(***************************************************************************)
(* Properties of vals_to_qs and batchqs_from_valfunc (checked under        *)
(* SpecBatchQs).                                                           *)
(***************************************************************************)
\* how many valid actions of the state are not above action a
ValidUpTo(state, a) == Cardinality({b \in 1 .. a : state[b] = 1})

\* C15: every row of the result has action_size entries; the entry of the
\* i-th valid action of the row's state, in increasing order of the actions,
\* is the negated value of the i-th child of that state, and the entry of
\* every invalid action is 0.
C15_QsFromChildValues ==
  fn.pc = "done" =>
    /\ Len(fn.batch_qvals) = Len(fn.states)
    /\ \A r \in 1 .. Len(fn.states) :
         LET state == fn.states[r]
             child_vals == val_func(fn.val_func, get_children(state))
             qvals == fn.batch_qvals[r]
         IN  /\ DOMAIN qvals = Actions
             /\ \A a \in Actions :
                  /\ state[a] = 1 => qvals[a] = 0 - child_vals[ValidUpTo(state, a)]
                  /\ state[a] = 0 => qvals[a] = 0

\* C15's case: a finished call on two rows of different states, one of which
\* has an invalid action below a valid one, so that the position of a child
\* is not its action
C15_Witness ==
  /\ fn.pc = "done"
  /\ Len(fn.states) >= 2
  /\ fn.states[1] # fn.states[2]
  /\ \E r \in 1 .. Len(fn.states) : \E a, b \in Actions :
       /\ a < b
       /\ fn.states[r][a] = 0
       /\ fn.states[r][b] = 1
       /\ fn.batch_qvals[r][b] # 0

(***************************************************************************)
(* The action distributions greedy_pi, batch_greedy_pi, temperate_pi and   *)
(* batch_temperate_pi (go_ai/montecarlo/__init__.py).  A probability is a  *)
(* fraction num / den.  np.exp is a floating-point function: positive and  *)
(* increasing on a finite range of arguments, and 0.0 below that range     *)
(* (float64: below about -745); the model keeps this with a fixed-point    *)
(* exponential of ExpRange binary digits.                                  *)
(***************************************************************************)
\* the arguments -ExpRange .. 0 have a positive exponential
ExpRange == 3

\* the Q-values of the model
QVals == {-2, 0, 2}

\* the temperatures of the model
Temps == {-1, 0, 1, 2}

\* np.exp(x) for x <= 0, in units of 2 ^ -ExpRange
Exp(x) == IF x < 0 - ExpRange THEN 0 ELSE Pow2(ExpRange + x)

\* np.max of the entries of f at the indices S
MaxOver(f, S) == CHOOSE x \in {f[a] : a \in S} : \A a \in S : x >= f[a]

Frac(n, d) == [num |-> n, den |-> d]

\* special.softmax(x) over the entries of x at the indices S:
\* exp(x - max(x)) / sum(exp(x - max(x)))
softmax(x, S) ==
  LET m == MaxOver(x, S)
      w == [a \in S |-> Exp(x[a] - m)]
  IN  [a \in S |-> Frac(w[a], SumOver(w, S))]

\* preprocessing.normalize(pi, norm='l1') of a row of zeros and ones
normalize_l1(ind) ==
  LET norm == SumOver(ind, DOMAIN ind)
  IN  [a \in DOMAIN ind |-> Frac(ind[a], IF norm = 0 THEN 1 ELSE norm)]

\* greedy_pi
greedy_pi(qvals, valid_moves) ==
  LET top == MaxOver(qvals, DOMAIN qvals)
      expq == [a \in DOMAIN qvals |-> Exp(qvals[a] - top) * valid_moves[a]]
      max_qs == MaxOver(expq, DOMAIN expq)
      pi == [a \in DOMAIN qvals |-> IF expq[a] = max_qs THEN 1 ELSE 0]
  IN  normalize_l1(pi)

\* batch_greedy_pi: the same along axis 1, row by row
batch_greedy_pi(batch_qvals, batch_valid_moves) ==
  [r \in DOMAIN batch_qvals |-> greedy_pi(batch_qvals[r], batch_valid_moves[r])]

\* qvals * (1 / temp), for the temperatures of the model
Scaled(qvals, temp) == [a \in DOMAIN qvals |-> qvals[a] \div temp]

\* temperate_pi
temperate_pi(qvals, temp, valid_moves) ==
  IF temp <= 0
  THEN greedy_pi(qvals, valid_moves)
  ELSE LET valid_indcs == {a \in DOMAIN qvals : valid_moves[a] = 1}
           sm == softmax(Scaled(qvals, temp), valid_indcs)
       IN  [a \in DOMAIN qvals |-> IF a \in valid_indcs THEN sm[a] ELSE Frac(0, 1)]

\* batch_temperate_pi
batch_temperate_pi(batch_qvals, temp, batch_valid_moves) ==
  IF temp <= 0
  THEN batch_greedy_pi(batch_qvals, batch_valid_moves)
  ELSE [r \in DOMAIN batch_qvals |->
          softmax(Scaled(batch_qvals[r], temp), DOMAIN batch_qvals[r])]

PiRows == [Actions -> QVals] \X Masks

\* a call of one of the four functions; temp is 0 where the function has no
\* such parameter
PiCall(f, t, rows) ==
  [pc |-> "call", func |-> f, temp |-> t,
   qvals |-> [r \in DOMAIN rows |-> rows[r][1]],
   valid_moves |-> [r \in DOMAIN rows |-> rows[r][2]], pi |-> <<>>]

\* the calls: the single-row functions on one row, the batch functions on a
\* batch of rows
PiInputs(f, t, rows) ==
  /\ f \in {"greedy_pi", "temperate_pi"} => Len(rows) = 1
  /\ f \in {"greedy_pi", "batch_greedy_pi"} => t = 0

PiGreedy ==
  /\ fn.pc = "call" /\ fn.func = "greedy_pi"
  /\ fn' = [fn EXCEPT !.pc = "done", !.pi = <<greedy_pi(fn.qvals[1], fn.valid_moves[1])>>]
  /\ UNCHANGED trainvars

PiBatchGreedy ==
  /\ fn.pc = "call" /\ fn.func = "batch_greedy_pi"
  /\ fn' = [fn EXCEPT !.pc = "done", !.pi = batch_greedy_pi(fn.qvals, fn.valid_moves)]
  /\ UNCHANGED trainvars

PiTemperate ==
  /\ fn.pc = "call" /\ fn.func = "temperate_pi"
  /\ fn' = [fn EXCEPT !.pc = "done",
                      !.pi = <<temperate_pi(fn.qvals[1], fn.temp, fn.valid_moves[1])>>]
  /\ UNCHANGED trainvars

PiBatchTemperate ==
  /\ fn.pc = "call" /\ fn.func = "batch_temperate_pi"
  /\ fn' = [fn EXCEPT !.pc = "done",
                      !.pi = batch_temperate_pi(fn.qvals, fn.temp, fn.valid_moves)]
  /\ UNCHANGED trainvars

PiInit ==
  /\ TrainInit
  /\ \E f \in {"greedy_pi", "batch_greedy_pi", "temperate_pi", "batch_temperate_pi"} :
       \E t \in Temps : \E n \in 1 .. MaxStates : \E rows \in [1 .. n -> PiRows] :
         /\ PiInputs(f, t, rows)
         /\ fn = PiCall(f, t, rows)

PiNext == PiGreedy \/ PiBatchGreedy \/ PiTemperate \/ PiBatchTemperate

SpecPi == PiInit /\ [][PiNext]_vars

(***************************************************************************)
(* Properties of the action distributions (checked under SpecPi).          *)
(***************************************************************************)
\* the probabilities of a row add up to 1
SumsToOne(row) ==
  \E d \in {row[a].den : a \in DOMAIN row} :
    /\ \A a \in DOMAIN row : row[a].num # 0 => row[a].den = d
    /\ SumOver([c \in DOMAIN row |-> row[c].num], DOMAIN row) = d

\* two fractions are the same number
FracEq(p, q) == p.num * q.den = q.num * p.den

\* the row gives every invalid action probability zero
ZeroOnInvalid(row, valid_moves) == \A a \in DOMAIN row : valid_moves[a] = 0 => row[a].num = 0

\* C13: for temp > 0, every row returned by temperate_pi and by
\* batch_temperate_pi gives exactly zero probability to every invalid action,
\* and its probabilities (those of the valid actions) add up to 1.
C13_TemperateZeroOnInvalid ==
  (fn.pc = "done" /\ fn.func \in {"temperate_pi", "batch_temperate_pi"} /\ fn.temp > 0) =>
    \A r \in DOMAIN fn.pi :
      /\ ZeroOnInvalid(fn.pi[r], fn.valid_moves[r])
      /\ SumsToOne(fn.pi[r])

\* the valid actions of the largest Q-value among the valid actions
BestValid(qvals, valid_moves) ==
  {a \in DOMAIN qvals :
     /\ valid_moves[a] = 1
     /\ \A b \in DOMAIN qvals : valid_moves[b] = 1 => qvals[a] >= qvals[b]}

\* C14: every row returned by greedy_pi and batch_greedy_pi, and by
\* temperate_pi and batch_temperate_pi with temp <= 0, adds up to 1, is zero
\* on every invalid action and is uniform over exactly the valid actions of
\* the largest Q-value among the valid actions.
C14_GreedyUniformOverBest ==
  (fn.pc = "done" /\ (fn.func \in {"greedy_pi", "batch_greedy_pi"} \/ fn.temp <= 0)) =>
    \A r \in DOMAIN fn.pi :
      LET best == BestValid(fn.qvals[r], fn.valid_moves[r])
      IN  /\ SumsToOne(fn.pi[r])
          /\ ZeroOnInvalid(fn.pi[r], fn.valid_moves[r])
          /\ \A a \in Actions :
               FracEq(fn.pi[r][a], IF a \in best THEN Frac(1, Cardinality(best))
                                   ELSE Frac(0, 1))

(***************************************************************************)
(* Properties of the replay buffer (checked under Spec).                   *)
(***************************************************************************)
\* the number of trajectories a shard file yields when it is loaded
ShardLen(q) == Len(Unpickle(disk[q].content).v)

\* C16 (bound): every worker's replay buffer holds at most
\* replaysize // world_size trajectories, and the shard files together hold
\* at most replaysize.
C16_Bound ==
  /\ \A r \in Ranks : Len(replay_data[r]) <= ReplaySize \div WorldSize
  /\ \A r \in Ranks : ShardLen(r) <= ReplaySize \div WorldSize
  /\ SumOver([q \in Ranks |-> ShardLen(q)], Ranks) <= ReplaySize

\* C16 (eviction): replay_data.extend(trajectories) keeps the old buffer
\* followed by the new trajectories, less a prefix of it, the oldest-appended
\* ones; something is dropped only when the bound would be exceeded, and then
\* the buffer is full.
C16_Fifo ==
  \A r \in Ranks :
    (pc[r] = "after_play" /\ pc'[r] = "save_open") =>
      LET all == replay_data[r] \o played[r].traj
          now == replay_data'[r]
          dropped == Len(all) - Len(now)
      IN  /\ dropped >= 0
          /\ now = SubSeq(all, dropped + 1, Len(all))
          /\ dropped > 0 => Len(now) = ReplaySize \div WorldSize

\* C16: the replay buffer is bounded by replaysize // world_size per worker
\* (replaysize over all shards) after any number of iterations, and appending
\* beyond the bound drops exactly the oldest-appended trajectories.
C16_BoundedFifoBuffer == [](C16_Bound) /\ [][C16_Fifo]_vars

\* C16's case: a worker whose full buffer has lost its oldest trajectories,
\* written to its shard file
C16_Witness ==
  \E r \in Ranks :
    /\ pc[r] = "barrier_written"
    /\ Len(replay_data[r]) = ReplaySize \div WorldSize
    /\ replay_data[r][1].it > 0
    /\ ShardLen(r) = ReplaySize \div WorldSize

(***************************************************************************)
(* load_replaydata (go_ai/data.py) on a directory that holds the shard     *)
(* files of n workers, as save_replaydata names them.                      *)
(***************************************************************************)
\* the largest number of workers that have written a shard
MaxShards == 11
\* the largest replay buffer in a shard
MaxShardLen == 2

\* the directory after n workers have each saved a buffer of len trajectories
ShardDir(n, len) ==
  [q \in 0 .. (n - 1) |->
     [exists |-> TRUE, open |-> FALSE,
      content |-> Pickle([k \in 1 .. len |-> Traj(q, 0, k, 0)])]]

LoadInputs ==
  {[pc |-> "call", episodesdir |-> ShardDir(n, len), worker_rank |-> wr, all_data |-> None] :
     n \in 1 .. MaxShards, len \in 1 .. MaxShardLen,
     wr \in {None} \cup {Some(r) : r \in 0 .. (MaxShards - 1)}}

\* load_replaydata(episodesdir, worker_rank)
LoadCall ==
  /\ fn.pc = "call"
  /\ LET loaded == load_replaydata(fn.episodesdir, fn.worker_rank)
     IN  IF loaded.ok
         THEN fn' = [fn EXCEPT !.pc = "done", !.all_data = Some(loaded.v)]
         ELSE fn' = [fn EXCEPT !.pc = "crashed"]
  /\ UNCHANGED trainvars

LoadInit ==
  /\ TrainInit
  /\ fn \in LoadInputs
  /\ fn.worker_rank.some => fn.worker_rank.v \in DOMAIN fn.episodesdir

LoadNext == LoadCall

SpecLoad == LoadInit /\ [][LoadNext]_vars

(***************************************************************************)
(* Properties of load_replaydata (checked under SpecLoad).                 *)
(***************************************************************************)
\* what one shard file holds
ShardOf(q) == Unpickle(fn.episodesdir[q].content).v

\* C17: load_replaydata(episodesdir, worker_rank=r) returns the contents of
\* worker r's shard file only, whatever the number of shard files in the
\* directory; with worker_rank=None it returns all the files' contents, one
\* after the other.
C17_LoadsOwnShardOnly ==
  fn.pc # "call" =>
    /\ fn.pc = "done"
    /\ fn.worker_rank.some => fn.all_data.v = ShardOf(fn.worker_rank.v)
    /\ ~fn.worker_rank.some =>
         fn.all_data.v =
           Concat([i \in 1 .. Cardinality(DOMAIN fn.episodesdir) |-> ShardOf(i - 1)])

(***************************************************************************)
(* Properties of the collectives (checked under SpecFair).                 *)
(***************************************************************************)
\* where in the run a worker's collective call is: the call site, the
\* iteration, the caller of parallel_play with its opponent, the round of
\* sample_replaydata's loop
CollectiveCall(r) ==
  <<pc[r], iteration[r], ctx[r],
    IF ctx[r] = "eval" THEN opponent[r] ELSE 0,
    IF pc[r] = "sample_barrier" THEN worker[r] ELSE 0>>

\* C18 (lockstep): workers that are blocked in a collective together, or
\* have been released from one together, are at the same call of the same
\* iteration; after a match all workers hold the same win rate; evaluate
\* returns the same to all; workers of the same iteration hold the same
\* rejection counter; sample_replaydata's loop is left after world_size
\* rounds.
C18_Lockstep ==
  /\ \A r, q \in Ranks :
       /\ (entered[r].some /\ entered[q].some) => CollectiveCall(r) = CollectiveCall(q)
       /\ (result[r].some /\ result[q].some) => CollectiveCall(r) = CollectiveCall(q)
       /\ (pc[r] = "after_play" /\ pc[q] = "after_play") =>
            /\ played[r].winrate = played[q].winrate
            /\ ctx[r] = ctx[q] /\ opponent[r] = opponent[q] /\ iteration[r] = iteration[q]
       /\ (pc[r] = "eval_ret" /\ pc[q] = "eval_ret") =>
            accepted[r] = accepted[q] /\ iteration[r] = iteration[q]
       /\ iteration[r] = iteration[q] => rejections[r] = rejections[q]
  /\ \A r \in Ranks :
       /\ pc[r] \in {"sample_loop", "sample_pick", "sample_del", "sample_barrier"} =>
            worker[r] \in 0 .. (WorldSize - 1)
       /\ pc[r] = "optimize" => worker[r] = WorldSize

\* C18 (rounds): the loop variable of sample_replaydata starts at 0 and goes
\* up by one exactly on the return of the round's comm.Barrier()
C18_BarrierPerRound ==
  \A r \in Ranks :
    worker'[r] # worker[r] =>
      \/ pc[r] = "sample_enter" /\ worker'[r] = 0
      \/ pc[r] = "sample_barrier" /\ result[r].some /\ worker'[r] = worker[r] + 1

\* every worker has run all its iterations
AllDone == \A r \in Ranks : pc[r] = "done" /\ iteration[r] = Iterations

\* a worker has crashed
SomeCrashed == \E r \in Ranks : pc[r] = "crashed"

\* C18 (no waiting forever): unless a worker has crashed, a worker that is
\* blocked in a collective has a peer that has not entered it yet and is
\* still running towards it
C18_NoneStuck ==
  ~SomeCrashed =>
    \A r \in Ranks :
      entered[r].some => \E q \in Ranks : ~entered[q].some /\ pc[q] # "done"

\* how many statements of an iteration of train() lie before the worker's
\* position: train_step first, with the rounds of sample_replaydata, then
\* the matches of evaluate
PcOrder(r) ==
  LET rounds == 10 + 4 * WorldSize
      match == 2 + rounds + 5 * (opponent[r] - 1)
      inmatch == CASE pc[r] = "play_games" -> 0
                   [] pc[r] = "ar_time" -> 1
                   [] pc[r] = "ar_winrate" -> 2
                   [] pc[r] = "ar_steps" -> 3
                   [] pc[r] = "after_play" -> 4
                   [] OTHER -> 0
  IN  CASE pc[r] \in {"play_games", "ar_time", "ar_winrate", "ar_steps", "after_play"} ->
             IF ctx[r] = "selfplay" THEN inmatch ELSE match + inmatch
        [] pc[r] = "save_open" -> 5
        [] pc[r] = "save_dump" -> 6
        [] pc[r] = "save_close" -> 7
        [] pc[r] = "barrier_written" -> 8
        [] pc[r] = "sample_enter" -> 9
        [] pc[r] = "sample_loop" -> 10 + 4 * worker[r]
        [] pc[r] = "sample_pick" -> 11 + 4 * worker[r]
        [] pc[r] = "sample_del" -> 12 + 4 * worker[r]
        [] pc[r] = "sample_barrier" -> 13 + 4 * worker[r]
        [] pc[r] = "optimize" -> rounds
        [] pc[r] = "eval_check" -> 1 + rounds
        [] pc[r] = "eval_ret" -> 2 + rounds + 5 * Len(Opponents)
        [] pc[r] = "crashed" -> 3 + rounds + 5 * Len(Opponents)
        [] pc[r] = "done" -> 0

\* the statements of one iteration, at most
IterationLength == 4 + 10 + 4 * WorldSize + 5 * Len(Opponents)

\* how far the run has come: the statements the workers have behind them,
\* the state of their collective calls, and the failed dump attempts
Progress ==
  failures +
  SumOver([r \in Ranks |->
             3 * (iteration[r] * IterationLength + PcOrder(r))
             + (IF result[r].some THEN 2 ELSE IF entered[r].some THEN 1 ELSE 0)],
          Ranks)

\* C18 (every iteration completes): every step of a worker takes the run
\* forward, so a run cannot go on for ever without ending
C18_StepsAdvance == Progress' > Progress

EveryRunEnds == <>(AllDone \/ SomeCrashed)

====
